---- MODULE Spec2Model ----
(***************************************************************************)
(* Flow tracking engine of usdc-v2-backend: the durable worker, the        *)
(* tracker manager (trackDepositFlow / trackPaymentFlow), the client-stage *)
(* service, registration, resume-on-startup, the WebSocket server and the  *)
(* chain pollers.                                                          *)
(*                                                                         *)
(* An engine run is a chain of continuations separated by awaits (RPC      *)
(* calls, store reads and writes, polls).  Every action below is one       *)
(* continuation: the awaited operation takes effect and the synchronous    *)
(* code after it runs up to the next await.                                *)
(*                                                                         *)
(* The specifications:                                                     *)
(*   Spec        one stored flow, its jobs (the original one and the ones  *)
(*               resume adds at a restart), cancellation and the clock;    *)
(*   SpecClient  one job of the flow with appendClientStage requests;      *)
(*   SpecRun     one job of the flow alone;                                *)
(*   SpecResume  resumeUnfinishedFlows over a table of stored flows;       *)
(*   SpecTrack   trackFlow calls, sequential or overlapping;               *)
(*   SpecWs      the WebSocket server and the status-update emitter;       *)
(*   SpecPoller  one poller invocation (SpecPollerFair: with fairness);    *)
(*   SpecScan    one Noble pollForDeposit call over the blocks it reads;   *)
(*   SpecCalc    one call of a function of the pollers or of params.ts.    *)
(***************************************************************************)
EXTENDS Integers, Sequences, FiniteSets, TLC

(* ------------------------------ bounds --------------------------------- *)
MaxRestarts == 1        \* process restarts explored
MaxTime == 1            \* clock ticks explored
StageBudget == 1        \* stageTimeoutMs, in clock ticks
MaxClientStages == 1    \* appendClientStage calls explored
MaxStoredFlows == 3     \* stored flows at startup (resume specification)
MaxTrackCalls == 3      \* trackFlow calls explored (registration specification)
MaxWsMessages == 3      \* subscribe / unsubscribe messages explored (websocket specification)
MaxEvents == 2          \* status updates published per flow (websocket specification)
MaxScan == 2            \* heights between nextHeight and the tip when a poller reads the tip
MaxHeight == 3          \* highest chain tip explored (scan specification)
MaxBlockEvents == 2     \* events of one kind carried by one block (scan specification)

(* --------------------------- program constants ------------------------- *)
Chains == {"evm", "noble", "namada"}
FlowTypes == {"deposit", "payment"}
DEFAULT_STATUS == "pending"
FINISHED_STATUSES == {"completed", "failed", "cancelled"}
Statuses == {"pending", "completed", "failed", "undetermined"}
Terminal == {"completed", "failed", "undetermined"}
POLLER_SOURCE == "poller"
CLIENT_SOURCE == "client"

Undef == -2             \* a field that is absent (undefined)
Null == -1              \* a field that is null

Runs == 1..(MaxRestarts + 1)   \* job 1 is enqueued by trackFlow, job k+1 by the k-th startup

(* ------------------------------- state --------------------------------- *)
VARIABLES
  flowType,       \* TrackedTransaction.flowType of the stored flow
  params,         \* FlowTrackingParams carried by the flow's jobs (which prerequisites are present)
  status,         \* TrackedTransaction.status in the store
  errorState,     \* TrackedTransaction.errorState in the store: "none", "timeout" or "error"
  chainProgress,  \* TrackedTransaction.chainProgress in the store
  statusLogs,     \* TransactionStatusLog rows of the flow, in creation order
  events,         \* number of status-update events the engine published for the flow
  activeFlows,    \* activeFlows.get(flow.id): the run whose AbortController is registered, 0 if none
  flowTimeouts,   \* flowTimeouts.get(flow.id): [present, start: stage -> startTime]
  run,            \* one record per job of the flow: the worker's and the engine's position and locals
  client,         \* the appendClientStage call in progress
  clientCalls,    \* appendClientStage calls made so far
  restarts,       \* process starts after the first
  now,            \* the clock (Date.now()), in ticks
  stored,         \* resume specification: the stored flows' statuses at startup
  resumeAt,       \* resume specification: position of the loop over unfinishedFlows
  queue,          \* flow ids of the jobs added to txPollingQueue, in order
  track,          \* registration specification: one record per trackFlow call
  byHash,         \* registration specification: the TrackedTransaction row of each txHash (0: none)
  ws,             \* websocket specification: connections, subscriptions, listeners, messages sent
  poller,         \* poller specification: one poller invocation
  scan,           \* scan specification: one Noble pollForDeposit call over block contents
  calc            \* function specification: one call of a function, its input and its result

vars == <<flowType, params, status, errorState, chainProgress, statusLogs, events,
          activeFlows, flowTimeouts, run, client, clientCalls, restarts, now,
          stored, resumeAt, queue, track, byHash, ws, poller, scan, calc>>

engineVars == <<flowType, params, status, errorState, chainProgress, statusLogs, events,
                activeFlows, flowTimeouts, run, client, clientCalls, restarts, now>>

resumeVars == <<stored, resumeAt, queue>>

sideVars == <<track, byHash, ws, poller, scan, calc>>

(* ----------------------------- data model ------------------------------ *)
Stages == {"evm_burn", "noble_deposit", "namada_receive", "namada_ibc", "noble_payment", "evm_mint"}

\* ChainProgressEntry; present = FALSE is a key that is absent from chainProgress
NoEntry ==
  [present |-> FALSE, status |-> "none", txHash |-> "none", startBlock |-> Undef,
   stages |-> <<>>, gaslessStages |-> <<>>]

createPendingEntry ==
  [present |-> TRUE, status |-> "pending", txHash |-> "none", startBlock |-> Undef,
   stages |-> <<>>, gaslessStages |-> <<>>]

Max(a, b) == IF a >= b THEN a ELSE b

\* rpcClient.getLatestBlockHeight(): one block per tick on each Tendermint chain
LatestBlockHeight(chain, t) == IF chain = "noble" THEN 10 + t ELSE 4 + t

\* getChainPollingConfig(...).blockWindowBackscan for the chain ids the deposit engine uses
blockWindowBackscan(chain) == IF chain = "noble" THEN 10 ELSE 5

\* resolveStartBlocks.compute and ensureStartBlock: max(0, latest - blockWindowBackscan)
computeStartBlock(chain, t) == Max(0, LatestBlockHeight(chain, t) - blockWindowBackscan(chain))

\* buildInitialChainProgress(flowType, startBlocks, existing)
\* kind "resolved": start blocks computed; "unresolved": compute failed (null);
\* "client": the request carried its own chainProgress (three pending entries, no startBlock)
buildInitialChainProgress(ft, kind) ==
  LET sb(c) == IF kind = "resolved" THEN computeStartBlock(c, 0) ELSE Null
  IN  IF kind = "client"
        THEN [c \in Chains |-> createPendingEntry]
      ELSE IF ft = "deposit"
        THEN [c \in Chains |->
                IF c = "evm" THEN NoEntry ELSE [createPendingEntry EXCEPT !.startBlock = sb(c)]]
        ELSE [c \in Chains |->
                [createPendingEntry EXCEPT !.startBlock = IF c = "evm" THEN Null ELSE sb(c)]]

NoParams ==
  [evmBurnTxHash |-> FALSE, forwardingAddress |-> FALSE, namadaReceiver |-> FALSE,
   namadaIbcTxHash |-> FALSE, memoReceiverAmount |-> FALSE, mintRecipientB64 |-> FALSE]

\* the tracked flows explored: flow type, the FlowTrackingParams its metadata yields, and
\* how its initial chainProgress was built
FlowProfiles ==
  { [flowType |-> "deposit", kind |-> "resolved", params |-> NoParams],
    [flowType |-> "deposit", kind |-> "resolved",
     params |-> [NoParams EXCEPT !.forwardingAddress = TRUE, !.namadaReceiver = TRUE]],
    [flowType |-> "deposit", kind |-> "unresolved",
     params |-> [NoParams EXCEPT !.forwardingAddress = TRUE, !.namadaReceiver = TRUE]],
    [flowType |-> "deposit", kind |-> "client",
     params |-> [NoParams EXCEPT !.evmBurnTxHash = TRUE]],
    [flowType |-> "deposit", kind |-> "client",
     params |-> [NoParams EXCEPT !.forwardingAddress = TRUE, !.namadaReceiver = TRUE]],
    [flowType |-> "payment", kind |-> "resolved",
     params |-> [NoParams EXCEPT !.memoReceiverAmount = TRUE]],
    [flowType |-> "payment", kind |-> "resolved",
     params |-> [NoParams EXCEPT !.namadaIbcTxHash = TRUE, !.memoReceiverAmount = TRUE,
                                 !.mintRecipientB64 = TRUE]],
    [flowType |-> "payment", kind |-> "unresolved",
     params |-> [NoParams EXCEPT !.namadaIbcTxHash = TRUE, !.memoReceiverAmount = TRUE,
                                 !.mintRecipientB64 = TRUE]] }

NoTimeouts == [present |-> FALSE, start |-> [s \in Stages |-> Undef]]

IdleRun ==
  [pc |-> "none", stage |-> "none", step |-> "none", loaded |-> "none",
   cp |-> [c \in Chains |-> NoEntry], pending |-> [c \in Chains |-> NoEntry],
   res |-> <<FALSE, FALSE>>, pollStart |-> Undef, startHeight |-> Undef,
   aborted |-> FALSE, lastPoll |-> "none", stopSeen |-> FALSE]

IdleClient == [pc |-> "idle", update |-> "none", cp |-> [c \in Chains |-> NoEntry],
               status |-> "none", errorState |-> "none"]

(* --------------------------- websocket: data --------------------------- *)
Conns == {"c1", "c2"}          \* the WebSocket objects of the connections explored
WsFlows == {"f1", "f2"}        \* the flow ids clients name in their messages

\* The server before any connection: readyState of each socket ("new": not connected yet),
\* flowSubscriptions as a set of <<socket, flowId>>, the listeners registered on the emitter
\* for `flow:<id>` whose callback sends on the socket, the status-update messages sent per
\* socket and flow, the events published per flow, and the client messages handled.
IdleWs ==
  [readyState |-> [c \in Conns |-> "new"],
   flowSubscriptions |-> {},
   listeners |-> [c \in Conns |-> [f \in WsFlows |-> 0]],
   sent |-> [c \in Conns |-> [f \in WsFlows |-> 0]],
   published |-> [f \in WsFlows |-> 0],
   messages |-> 0]

(* ----------------------------- pollers: data --------------------------- *)
\* pollUsdcMint, Noble pollForDeposit and pollForOrbiter, Namada pollForDeposit
PollerKinds == {"evm", "noble_deposit", "noble_orbiter", "namada"}

\* A poller invocation: its position, its kind, whether params.abortSignal was supplied,
\* whether the EVM client returns block numbers as bigint (the type pollUsdcMint computes
\* with) or as number (what getBlockNumber of the EVM client returns), whether the caller
\* aborted the supplied signal, Date.now() at the call, the heights left to scan, the
\* conditions latched (a: received / ack, b: forward / cctp / namadaTxHash), the result, and
\* whether an RPC request was issued while abortSignal.aborted was true.
IdlePoller ==
  [pc |-> "idle", kind |-> "none", external |-> FALSE, bigint |-> FALSE, extAborted |-> FALSE,
   start |-> 0, todo |-> 0, a |-> FALSE, b |-> FALSE, result |-> "none", rpcAfterAbort |-> FALSE]

(* ------------------------- registration: data -------------------------- *)
TxHashes == {"h1", "h2"}

\* a trackFlow call: its position, its input's txHash, the id of the row it created and the
\* flow id it returned (0: none)
IdleCall == [pc |-> "idle", txHash |-> "none", created |-> 0, result |-> 0]

\* no function called yet
IdleCalc == [op |-> "none"]

\* pollForDeposit of the Noble poller before the call: its position, params.startHeight,
\* nextHeight, the last tip read (0: none), receivedFound, forwardFound, the result
\* returned (found, error) and, per getBlockResults request made, the height, the outcome
\* and what the block carried.
IdleScan ==
  [pc |-> "idle", startHeight |-> 0, nextHeight |-> 0, latest |-> 0,
   receivedFound |-> FALSE, forwardFound |-> FALSE,
   found |-> FALSE, error |-> FALSE, requests |-> <<>>]

\* no trackFlow call, no row
NoRegistration ==
  /\ track = [c \in 1..MaxTrackCalls |-> IdleCall]
  /\ byHash = [h \in TxHashes |-> 0]

(* ------------------------------- Init ---------------------------------- *)
\* the state right after trackFlow created the flow and enqueued its polling job
Init ==
  /\ \E p \in FlowProfiles :
       /\ flowType = p.flowType
       /\ params = p.params
       /\ chainProgress = buildInitialChainProgress(p.flowType, p.kind)
  /\ status = DEFAULT_STATUS
  /\ errorState = "none"
  /\ statusLogs = <<>>
  /\ events = 0
  /\ activeFlows = 0
  /\ flowTimeouts = NoTimeouts
  /\ run = [r \in Runs |-> IF r = 1 THEN [IdleRun EXCEPT !.pc = "queued"] ELSE IdleRun]
  /\ client = IdleClient
  /\ clientCalls = 0
  /\ restarts = 0
  /\ now = 0
  /\ stored = <<>>
  /\ resumeAt = 0
  /\ queue = <<>>
  /\ NoRegistration
  /\ ws = IdleWs
  /\ poller = IdlePoller
  /\ scan = IdleScan
  /\ calc = IdleCalc

(* --------------------------- tracker manager --------------------------- *)
\* the chainProgress key a stage belongs to: stage.split('_')[0]
StageChain(s) ==
  IF s \in {"evm_burn", "evm_mint"} THEN "evm"
  ELSE IF s \in {"noble_deposit", "noble_payment"} THEN "noble"
  ELSE "namada"

\* the StatusLog stage symbol written when a condition of a stage is confirmed
ConfirmedSymbol(s, step) ==
  IF s = "evm_burn" THEN "evm_burn_confirmed"
  ELSE IF s = "noble_deposit" THEN (IF step = "a" THEN "noble_cctp_minted" ELSE "noble_ibc_forwarded")
  ELSE IF s = "namada_receive" THEN "namada_received"
  ELSE IF s = "noble_payment" THEN (IF step = "a" THEN "noble_received" ELSE "noble_cctp_burned")
  ELSE "evm_mint_confirmed"

\* trackStageTimeout(flowId, stage, timeoutMs): (re)creates the flow's entry, records Date.now()
trackStageTimeout(ft, s, t) == [present |-> TRUE, start |-> [ft.start EXCEPT ![s] = t]]

\* isTimeoutAbort(flowId, stage)
isTimeoutAbort(ft, s, t) ==
  /\ ft.present
  /\ ft.start[s] # Undef
  /\ t - ft.start[s] >= StageBudget

\* the engine leaves the try block: the finally clause runs when the run record is committed
Finish(rec) == [IdleRun EXCEPT !.pc = "done", !.lastPoll = rec.lastPoll]

\* ensureStartBlock, synchronous part: a startBlock that is not undefined is used as it is
\* (null included); otherwise the chain tip is awaited
ensureStartBlock(rec, s) ==
  LET sb == rec.cp[StageChain(s)].startBlock
  IN  IF sb # Undef
        THEN [rec EXCEPT !.stage = s, !.step = "none", !.pc = "poll", !.startHeight = sb]
        ELSE [rec EXCEPT !.stage = s, !.step = "none", !.pc = "tip"]

\* trackPaymentFlow: flow.chainProgress?.noble?.startBlock ?? (await getLatestBlockHeight()) - backscan
paymentStartHeight(rec) ==
  LET sb == rec.cp["noble"].startBlock
  IN  IF sb \notin {Undef, Null}
        THEN [rec EXCEPT !.stage = "noble_payment", !.step = "none", !.pc = "poll", !.startHeight = sb]
        ELSE [rec EXCEPT !.stage = "noble_payment", !.step = "none", !.pc = "tip"]

\* trackDepositFlow from step i on: each step runs only when its prerequisites are present
trackDepositFlow(rec, i) ==
  IF i <= 1 /\ params.evmBurnTxHash /\ rec.cp["evm"].present
    THEN [rec EXCEPT !.stage = "evm_burn", !.step = "none", !.pc = "poll"]
  ELSE IF i <= 2 /\ params.forwardingAddress /\ params.namadaReceiver
    THEN ensureStartBlock(rec, "noble_deposit")
  ELSE IF i <= 3 /\ params.namadaReceiver
    THEN ensureStartBlock(rec, "namada_receive")
  ELSE Finish(rec)

\* trackPaymentFlow from step i on
trackPaymentFlow(rec, i) ==
  IF i <= 1 /\ params.namadaIbcTxHash
    THEN [rec EXCEPT !.stage = "namada_ibc", !.step = "a", !.pc = "ucp_read"]
  ELSE IF i <= 2 /\ params.memoReceiverAmount
    THEN paymentStartHeight(rec)
  ELSE IF i <= 3 /\ params.mintRecipientB64
    THEN [rec EXCEPT !.stage = "evm_mint", !.step = "none", !.pc = "poll"]
  ELSE Finish(rec)

\* startFlow: dispatch on flow.flowType
startFlow(rec, i) ==
  IF flowType = "deposit" THEN trackDepositFlow(rec, i) ELSE trackPaymentFlow(rec, i)

\* A continuation of run r ends at its next await with record rec: a poll that starts
\* records its stage start (trackStageTimeout) and its own deadline base; a run that
\* ends executes finally { activeFlows.delete(flow.id); flowTimeouts.delete(flow.id) }.
Commit(r, rec, af, ft) ==
  /\ run' = [run EXCEPT ![r] =
               IF rec.pc = "poll"
                 THEN [rec EXCEPT !.pollStart = now, !.res = <<FALSE, FALSE>>,
                                  !.pending = IdleRun.pending]
               ELSE IF rec.pc \in {"ucp_write", "sbwrite"}
                 THEN [rec EXCEPT !.pollStart = Undef, !.startHeight = Undef]
               ELSE [rec EXCEPT !.pollStart = Undef, !.startHeight = Undef,
                                !.pending = IdleRun.pending]]
  /\ flowTimeouts' = IF rec.pc = "poll" THEN trackStageTimeout(ft, rec.stage, now)
                     ELSE IF rec.pc = "done" THEN NoTimeouts
                     ELSE ft
  /\ activeFlows' = IF rec.pc = "done" THEN 0 ELSE af

WorkerConcurrency == 5

InProgress(r) == run[r].pc \notin {"none", "queued", "skipped", "done", "dead"}

\* createTxPollingProcessor: load the flow, skip a finished one, otherwise startFlow, whose
\* synchronous prefix registers the AbortController and resets the flow's timeout tracking
ProcessJob(r) ==
  /\ run[r].pc = "queued"
  /\ \A q \in Runs : q < r => run[q].pc # "queued"     \* jobs are taken in queue order
  /\ Cardinality({q \in Runs : InProgress(q)}) < WorkerConcurrency
  /\ IF status = "completed" \/ status = "failed"
       THEN /\ run' = [run EXCEPT ![r] = [IdleRun EXCEPT !.pc = "skipped"]]
            /\ UNCHANGED <<activeFlows, flowTimeouts>>
       ELSE Commit(r, startFlow([run[r] EXCEPT !.loaded = status, !.cp = chainProgress], 1),
                   r, [NoTimeouts EXCEPT !.present = TRUE])
  /\ UNCHANGED <<flowType, params, status, errorState, chainProgress, statusLogs, events,
                 client, clientCalls, restarts, now, resumeVars, sideVars>>

EngineFrame == UNCHANGED <<flowType, params, client, clientCalls, restarts, now, resumeVars, sideVars>>

\* all conditions of the stage's poller were found (Namada: found with its namadaTxHash)
FullMatch(s, a, b) ==
  IF s \in {"noble_deposit", "noble_payment", "namada_receive"} THEN a /\ b ELSE a

\* How a poller can return <<a, b>>: evm <<found with txHash, ->>, noble deposit
\* <<receivedFound, forwardFound>>, namada <<found, namadaTxHash present>>, noble payment
\* <<ackFound, cctpFound>>.  A poller returns on a full match, on an RPC error reading the
\* tip (no flags set, at any time), and - the Tendermint pollers, with what has latched so
\* far - once the abort signal is set or Date.now() has reached its own deadline.
PollCanReturn(rec, a, b) ==
  IF rec.stage \in {"evm_burn", "evm_mint"} THEN ~b
  ELSE IF rec.stage = "namada_receive" THEN (b => a)
  ELSE \/ a /\ b
       \/ ~a /\ ~b
       \/ rec.aborted
       \/ now - rec.pollStart >= StageBudget

\* what the poll that returned was: a full match, or no full match with the stage's budget
\* (counted from the poll's own start) exhausted or not
PollExit(rec, a, b) ==
  IF FullMatch(rec.stage, a, b) THEN "match"
  ELSE IF now - rec.pollStart >= StageBudget THEN "exhausted"
  ELSE IF rec.aborted THEN "cancelled"
  ELSE "incomplete"

\* the incomplete check that ends the Noble deposit step (trackDepositFlow)
NobleIncomplete(rec, ft) ==
  IF ~isTimeoutAbort(ft, "noble_deposit", now)
    THEN [rec EXCEPT !.pc = "catch_read"]     \* throw new Error('Noble deposit tracking incomplete')
    ELSE Finish(rec)

\* the code after `await poller.poll...(...)`, up to its next await
AfterPoll(rec, ft) ==
  LET s == rec.stage
      a == rec.res[1]
      b == rec.res[2]
  IN  IF rec.aborted \/ isTimeoutAbort(ft, s, now)
        THEN IF isTimeoutAbort(ft, s, now)
               THEN [rec EXCEPT !.pc = "hpt_read"]
               ELSE Finish(rec)
      ELSE IF s = "evm_burn"
        THEN IF a THEN [rec EXCEPT !.pc = "ucp_read", !.step = "a"]
                  ELSE [rec EXCEPT !.pc = "catch_read"]     \* 'EVM burn not found'
      ELSE IF s = "noble_deposit"
        THEN IF a THEN [rec EXCEPT !.pc = "ucp_read", !.step = "a"]
             ELSE IF b THEN [rec EXCEPT !.pc = "ucp_read", !.step = "b"]
             ELSE NobleIncomplete(rec, ft)
      ELSE IF s = "namada_receive"
        THEN IF a /\ b THEN [rec EXCEPT !.pc = "ucp_read", !.step = "a"]
                       ELSE [rec EXCEPT !.pc = "catch_read"]   \* 'Namada receive not found'
      ELSE IF s = "noble_payment"
        THEN IF a THEN [rec EXCEPT !.pc = "ucp_read", !.step = "a"]
             ELSE IF b THEN [rec EXCEPT !.pc = "ucp_read", !.step = "b"]
             ELSE trackPaymentFlow(rec, 3)
      ELSE IF a THEN [rec EXCEPT !.pc = "ucp_read", !.step = "a"]   \* evm_mint
                ELSE Finish(rec)

\* a stage's poller returns
PollReturn(r) ==
  /\ run[r].pc = "poll"
  /\ \E a, b \in BOOLEAN :
       /\ PollCanReturn(run[r], a, b)
       /\ Commit(r, AfterPoll([run[r] EXCEPT
                                 !.res = <<a, b>>,
                                 !.lastPoll = PollExit(run[r], a, b)],
                              flowTimeouts),
                 activeFlows, flowTimeouts)
  /\ UNCHANGED <<status, errorState, chainProgress, statusLogs, events>>
  /\ EngineFrame

\* updateChainProgress, first half: findById and the merge of {status: 'confirmed', txHash?}
\* into the entry that was read
updateChainProgress(cp, s) ==
  [cp EXCEPT ![StageChain(s)] =
     [@ EXCEPT !.present = TRUE, !.status = "confirmed",
               !.txHash = IF s \in {"noble_deposit", "noble_payment"} THEN @ ELSE "poller"]]

UpdateRead(r) ==
  /\ run[r].pc = "ucp_read"
  /\ Commit(r, [run[r] EXCEPT !.pc = "ucp_write",
                              !.pending = updateChainProgress(chainProgress, run[r].stage)],
            activeFlows, flowTimeouts)
  /\ UNCHANGED <<status, errorState, chainProgress, statusLogs, events>>
  /\ EngineFrame

\* updateChainProgress, second half: repository.updateChainProgress writes the whole mapping
UpdateWrite(r) ==
  /\ run[r].pc = "ucp_write"
  /\ chainProgress' = run[r].pending
  /\ LET rec == run[r]
     IN  Commit(r, IF rec.stage = "namada_ibc" THEN trackPaymentFlow(rec, 2)
                   ELSE [rec EXCEPT !.pc = "log"],
                activeFlows, flowTimeouts)
  /\ UNCHANGED <<status, errorState, statusLogs, events>>
  /\ EngineFrame

\* addStatusLog(flowId, chain, stage, status): one TransactionStatusLog row
addStatusLog(logs, chain, stage, src, st) ==
  Append(logs, [stage |-> stage, chain |-> chain, source |-> src, status |-> st])

\* the code after the confirmed row of a condition was written
AfterConfirmedLog(rec, ft) ==
  LET s == rec.stage
  IN  IF s = "evm_burn" THEN trackDepositFlow(rec, 2)
      ELSE IF s = "noble_deposit"
        THEN IF rec.step = "a" /\ rec.res[2] THEN [rec EXCEPT !.pc = "ucp_read", !.step = "b"]
             ELSE IF rec.res[1] /\ rec.res[2] THEN trackDepositFlow(rec, 3)
             ELSE NobleIncomplete(rec, ft)
      ELSE IF s = "noble_payment"
        THEN IF rec.step = "a" /\ rec.res[2] THEN [rec EXCEPT !.pc = "ucp_read", !.step = "b"]
             ELSE trackPaymentFlow(rec, 3)
      ELSE [rec EXCEPT !.pc = "complete"]    \* namada_receive, evm_mint: repository.update

\* events the engine itself publishes after a confirmed row (the Noble steps publish none)
EmitsAfterLog(s) == IF s \in {"evm_burn", "namada_receive", "evm_mint"} THEN 1 ELSE 0

\* the stage symbol of the event emitStatusUpdate publishes after a confirmed row
EventAfterLog(s) ==
  IF s = "evm_burn" THEN "evm_burn_confirmed"
  ELSE IF s \in {"namada_receive", "evm_mint"} THEN "completed"
  ELSE "none"

ConfirmLog(r) ==
  /\ run[r].pc = "log"
  /\ statusLogs' = addStatusLog(statusLogs, StageChain(run[r].stage),
                                ConfirmedSymbol(run[r].stage, run[r].step), POLLER_SOURCE, "confirmed")
  /\ events' = events + EmitsAfterLog(run[r].stage)
  /\ Commit(r, AfterConfirmedLog(run[r], flowTimeouts),
            activeFlows, flowTimeouts)
  /\ UNCHANGED <<status, errorState, chainProgress>>
  /\ EngineFrame

\* repository.update(flow.id, {status: 'completed'}) after the final stage confirmed
MarkCompleted(r) ==
  /\ run[r].pc = "complete"
  /\ status' = "completed"
  /\ Commit(r, Finish(run[r]), activeFlows, flowTimeouts)
  /\ UNCHANGED <<errorState, chainProgress, statusLogs, events>>
  /\ EngineFrame

\* handlePollingTimeout: findById, then the check that the flow is not resolved yet
TimeoutRead(r) ==
  /\ run[r].pc = "hpt_read"
  /\ Commit(r, IF status \in {"completed", "failed", "undetermined"}
                 THEN Finish(run[r])
                 ELSE [run[r] EXCEPT !.pc = "hpt_write"],
            activeFlows, flowTimeouts)
  /\ UNCHANGED <<status, errorState, chainProgress, statusLogs, events>>
  /\ EngineFrame

\* handlePollingTimeout marking the flow failed, as a stage-incomplete error does
TimeoutWriteFailed(r) ==
  /\ run[r].pc = "hpt_write"
  /\ status' = "failed"
  /\ errorState' = "timeout"
  /\ Commit(r, [run[r] EXCEPT !.pc = "hpt_log"], activeFlows, flowTimeouts)
  /\ UNCHANGED <<chainProgress, statusLogs, events>>
  /\ EngineFrame

\* handlePollingTimeout: repository.update({status: 'undetermined', errorState: {reason: 'timeout', ...}})
TimeoutWrite(r) ==
  /\ run[r].pc = "hpt_write"
  /\ status' = "undetermined"
  /\ errorState' = "timeout"
  /\ Commit(r, [run[r] EXCEPT !.pc = "hpt_log"], activeFlows, flowTimeouts)
  /\ UNCHANGED <<chainProgress, statusLogs, events>>
  /\ EngineFrame

\* handlePollingTimeout: the `<stage>_timeout` row, the failed event, and the return
TimeoutLog(r) ==
  /\ run[r].pc = "hpt_log"
  /\ statusLogs' = addStatusLog(statusLogs, StageChain(run[r].stage), run[r].stage \o "_timeout",
                                POLLER_SOURCE, "failed")
  /\ events' = events + 1
  /\ Commit(r, Finish(run[r]), activeFlows, flowTimeouts)
  /\ UNCHANGED <<status, errorState, chainProgress>>
  /\ EngineFrame

\* catch (error): findById, then only a flow that is neither undetermined nor completed
\* is set to failed
CatchRead(r) ==
  /\ run[r].pc = "catch_read"
  /\ Commit(r, IF status # "undetermined" /\ status # "completed"
                 THEN [run[r] EXCEPT !.pc = "catch_write"]
                 ELSE Finish(run[r]),
            activeFlows, flowTimeouts)
  /\ UNCHANGED <<status, errorState, chainProgress, statusLogs, events>>
  /\ EngineFrame

\* catch (error): repository.update({status: 'failed', errorState: {error, occurredAt}}), failed event
CatchWrite(r) ==
  /\ run[r].pc = "catch_write"
  /\ status' = "failed"
  /\ errorState' = "error"
  /\ events' = events + 1
  /\ Commit(r, Finish(run[r]), activeFlows, flowTimeouts)
  /\ UNCHANGED <<chainProgress, statusLogs>>
  /\ EngineFrame

\* DEFAULT_POLLING_CONFIG.blockWindowBackscan, used for the chain id 'noble' of payment flows
DefaultBackscan == 20

\* rpcClient.getLatestBlockHeight() returns: ensureStartBlock computes the start block from
\* the run's own copy of chainProgress and issues the write; trackPaymentFlow starts to poll
TipReturn(r) ==
  /\ run[r].pc = "tip"
  /\ LET c == StageChain(run[r].stage)
         sb == computeStartBlock(c, now)
     IN  Commit(r, IF run[r].stage = "noble_payment"
                     THEN [run[r] EXCEPT !.pc = "poll",
                                         !.startHeight = LatestBlockHeight("noble", now) - DefaultBackscan]
                     ELSE [run[r] EXCEPT !.pc = "sbwrite",
                                         !.pending = [run[r].cp EXCEPT ![c] =
                                                        [@ EXCEPT !.present = TRUE, !.startBlock = sb]]],
                activeFlows, flowTimeouts)
  /\ UNCHANGED <<status, errorState, chainProgress, statusLogs, events>>
  /\ EngineFrame

\* rpcClient.getLatestBlockHeight() throws: the error reaches the catch handler
TipFails(r) ==
  /\ run[r].pc = "tip"
  /\ Commit(r, [run[r] EXCEPT !.pc = "catch_read"], activeFlows, flowTimeouts)
  /\ UNCHANGED <<status, errorState, chainProgress, statusLogs, events>>
  /\ EngineFrame

\* ensureStartBlock: repository.updateChainProgress(flow.id, {chainProgress: updatedProgress}),
\* flow.chainProgress = updatedProgress, and the stage's poll starts
StartBlockWrite(r) ==
  /\ run[r].pc = "sbwrite"
  /\ chainProgress' = run[r].pending
  /\ Commit(r, [run[r] EXCEPT !.pc = "poll", !.cp = run[r].pending,
                              !.startHeight = run[r].pending[StageChain(run[r].stage)].startBlock],
            activeFlows, flowTimeouts)
  /\ UNCHANGED <<status, errorState, statusLogs, events>>
  /\ EngineFrame

\* stopFlow(flowId): abort the registered controller and drop the entry; no-op without one
stopFlow ==
  /\ activeFlows' = 0
  /\ run' = [r \in Runs |->
               [run[r] EXCEPT !.aborted = @ \/ (activeFlows = r),
                              !.stopSeen = @ \/ (run[r].pc = "poll"
                                                 /\ now - run[r].pollStart < StageBudget)]]
  /\ UNCHANGED <<flowTimeouts, status, errorState, chainProgress, statusLogs, events>>
  /\ EngineFrame

(* ------------------------- client-stage service ------------------------ *)
\* the ClientStageUpdate bodies explored: chain, stage, status ("unset" when omitted), kind
ClientUpdates ==
  { [chain |-> "evm", stage |-> "gasless_swap", status |-> "confirmed", kind |-> "gasless"],
    [chain |-> "noble", stage |-> "client_note", status |-> "unset", kind |-> "default"],
    [chain |-> "namada", stage |-> "completed", status |-> "confirmed", kind |-> "default"],
    [chain |-> "evm", stage |-> "evm_burn_sent", status |-> "failed", kind |-> "default"] }

\* appendClientStage: the chainProgress it builds from the flow it read
appendStage(cp, u) ==
  LET entry == cp[u.chain]
      stage == [stage |-> u.stage,
                status |-> IF u.status = "unset" THEN "pending" ELSE u.status,
                source |-> CLIENT_SOURCE]
  IN  [cp EXCEPT ![u.chain] =
         [present |-> TRUE,
          status |-> IF u.status = "unset" THEN entry.status ELSE u.status,
          txHash |-> entry.txHash,
          startBlock |-> entry.startBlock,
          stages |-> IF u.kind = "gasless" THEN entry.stages ELSE Append(entry.stages, stage),
          gaslessStages |-> IF u.kind = "gasless" THEN Append(entry.gaslessStages, stage)
                            ELSE entry.gaslessStages]]

chainOrder(ft) == IF ft = "payment" THEN <<"namada", "noble", "evm">> ELSE <<"evm", "noble", "namada">>

\* determineOverallStatus(flowType, progress)
determineOverallStatus(ft, cp) ==
  LET chains == chainOrder(ft)
      \* the loop returns at the first chain without an entry or with a failed stage
      FirstStop == { i \in 1..3 :
                       \/ ~cp[chains[i]].present
                       \/ \E k \in 1..Len(cp[chains[i]].stages) :
                            cp[chains[i]].stages[k].status = "failed" }
      finalStages == cp[chains[3]].stages
  IN  IF FirstStop # {}
        THEN LET i == CHOOSE j \in FirstStop : \A k \in FirstStop : j <= k
             IN  IF ~cp[chains[i]].present THEN "pending" ELSE "failed"
      ELSE IF Len(finalStages) > 0
              /\ (finalStages[Len(finalStages)].stage = "completed"
                  \/ finalStages[Len(finalStages)].status = "confirmed")
        THEN "completed"
      ELSE "pending"

\* appendClientStage: findById; the new chainProgress and overall status are computed
ClientRead ==
  /\ client.pc = "idle"
  /\ clientCalls < MaxClientStages
  /\ \E u \in ClientUpdates :
       client' = [pc |-> "write", update |-> u, cp |-> appendStage(chainProgress, u),
                  status |-> determineOverallStatus(flowType, appendStage(chainProgress, u)),
                  errorState |-> errorState]
  /\ clientCalls' = clientCalls + 1
  /\ UNCHANGED <<flowType, params, status, errorState, chainProgress, statusLogs, events,
                 activeFlows, flowTimeouts, run, restarts, now, resumeVars, sideVars>>

\* appendClientStage: repository.updateChainProgress({chainProgress, status, metadata, errorState})
ClientWrite ==
  /\ client.pc = "write"
  /\ chainProgress' = client.cp
  /\ status' = client.status
  /\ errorState' = client.errorState
  /\ client' = [client EXCEPT !.pc = "log"]
  /\ UNCHANGED <<flowType, params, statusLogs, events, activeFlows, flowTimeouts, run,
                 clientCalls, restarts, now, resumeVars, sideVars>>

\* appendClientStage: repository.addStatusLog(createStatusLogPayload(update, CLIENT_SOURCE))
ClientLog ==
  /\ client.pc = "log"
  /\ statusLogs' = addStatusLog(statusLogs, client.update.chain, client.update.stage, CLIENT_SOURCE,
                                IF client.update.status = "unset" THEN "pending"
                                ELSE client.update.status)
  /\ client' = IdleClient
  /\ UNCHANGED <<flowType, params, status, errorState, chainProgress, events, activeFlows,
                 flowTimeouts, run, clientCalls, restarts, now, resumeVars, sideVars>>

(* --------------------------- restart and clock ------------------------- *)
\* findUnfinishedFlows: the where clause, flowType not null and status not in FINISHED_STATUSES
findUnfinishedFlows(f) == f.flowType # "null" /\ f.status \notin FINISHED_STATUSES

\* The process stops and starts again: engine runs and requests in progress are gone, the
\* in-memory maps are empty, jobs still waiting in the queue stay, and resumeUnfinishedFlows
\* enqueues a job for the flow when findUnfinishedFlows returns it.
Restart ==
  /\ restarts < MaxRestarts
  /\ restarts' = restarts + 1
  /\ run' = [r \in Runs |->
               IF InProgress(r) THEN [IdleRun EXCEPT !.pc = "dead"]
               ELSE IF r = restarts + 2 /\ findUnfinishedFlows([status |-> status, flowType |-> flowType])
                 THEN [IdleRun EXCEPT !.pc = "queued"]
               ELSE run[r]]
  /\ activeFlows' = 0
  /\ flowTimeouts' = NoTimeouts
  /\ client' = IdleClient
  /\ UNCHANGED <<flowType, params, status, errorState, chainProgress, statusLogs, events,
                 clientCalls, now, resumeVars, sideVars>>

\* time passes
Tick ==
  /\ now < MaxTime
  /\ now' = now + 1
  /\ UNCHANGED <<flowType, params, status, errorState, chainProgress, statusLogs, events,
                 activeFlows, flowTimeouts, run, client, clientCalls, restarts, resumeVars, sideVars>>

(* ------------------------- resume at startup -------------------------- *)
\* the rows the tracked-transaction table can hold at startup
StoredFlows == [status : Statuses \cup {"cancelled"}, flowType : FlowTypes \cup {"null"}]

RECURSIVE SeqsUpTo(_, _)
SeqsUpTo(S, n) ==
  IF n = 0 THEN {<<>>}
  ELSE LET shorter == SeqsUpTo(S, n - 1)
       IN  shorter \cup {Append(q, x) : q \in {p \in shorter : Len(p) = n - 1}, x \in S}

\* listUnfinishedFlows(): the ids (positions in the table) findUnfinishedFlows returns
RECURSIVE listUnfinishedFlows(_, _)
listUnfinishedFlows(table, i) ==
  IF i > Len(table) THEN <<>>
  ELSE IF findUnfinishedFlows(table[i]) THEN <<i>> \o listUnfinishedFlows(table, i + 1)
  ELSE listUnfinishedFlows(table, i + 1)

\* startup with a table of stored flows, no job in the queue and no engine run
InitResume ==
  /\ stored \in SeqsUpTo(StoredFlows, MaxStoredFlows)
  /\ resumeAt = 0
  /\ queue = <<>>
  /\ flowType = "deposit"
  /\ params = NoParams
  /\ chainProgress = buildInitialChainProgress("deposit", "resolved")
  /\ status = DEFAULT_STATUS
  /\ errorState = "none"
  /\ statusLogs = <<>>
  /\ events = 0
  /\ activeFlows = 0
  /\ flowTimeouts = NoTimeouts
  /\ run = [r \in Runs |-> IdleRun]
  /\ client = IdleClient
  /\ clientCalls = 0
  /\ restarts = 0
  /\ now = 0
  /\ NoRegistration
  /\ ws = IdleWs
  /\ poller = IdlePoller
  /\ scan = IdleScan
  /\ calc = IdleCalc

\* resumeUnfinishedFlows: `await txTrackerService.listUnfinishedFlows()` returns
ListUnfinished ==
  /\ resumeAt = 0
  /\ resumeAt' = 1
  /\ UNCHANGED <<stored, queue, engineVars, sideVars>>

\* resumeUnfinishedFlows: one turn of the loop, `await txPollingQueue.add(...)` for the next flow
EnqueueResumeJob ==
  /\ resumeAt >= 1
  /\ resumeAt <= Len(listUnfinishedFlows(stored, 1))
  /\ queue' = Append(queue, listUnfinishedFlows(stored, 1)[resumeAt])
  /\ resumeAt' = resumeAt + 1
  /\ UNCHANGED <<stored, engineVars, sideVars>>

\* resumeUnfinishedFlows has returned
ResumeDone == resumeAt = Len(listUnfinishedFlows(stored, 1)) + 1

(* ----------------------------- registration ---------------------------- *)
TrackFrame == UNCHANGED <<engineVars, stored, resumeAt, ws, poller, scan, calc>>

\* trackFlow: `await repository.findByHash(txHash)` returns; an existing row is returned,
\* otherwise resolveStartBlocks is awaited
TrackFind(c) ==
  /\ track[c].pc = "idle"
  /\ \E h \in TxHashes :
       track' = [track EXCEPT ![c] =
                   IF byHash[h] # 0
                     THEN [@ EXCEPT !.pc = "returned", !.txHash = h, !.result = byHash[h]]
                     ELSE [@ EXCEPT !.pc = "resolve", !.txHash = h]]
  /\ UNCHANGED <<byHash, queue>>
  /\ TrackFrame

\* trackFlow: resolveStartBlocks returns, buildInitialChainProgress, createMultiChainFlow is issued
TrackResolve(c) ==
  /\ track[c].pc = "resolve"
  /\ track' = [track EXCEPT ![c] = [@ EXCEPT !.pc = "create"]]
  /\ UNCHANGED <<byHash, queue>>
  /\ TrackFrame

\* trackFlow: prisma.trackedTransaction.create takes effect; the unique index on txHash
\* rejects a second row (P2002), which trackFlow does not catch
TrackCreate(c) ==
  /\ track[c].pc = "create"
  /\ LET h == track[c].txHash
         id == Cardinality({g \in TxHashes : byHash[g] # 0}) + 1
     IN  IF byHash[h] = 0
           THEN /\ byHash' = [byHash EXCEPT ![h] = id]
                /\ track' = [track EXCEPT ![c] = [@ EXCEPT !.pc = "enqueue", !.created = id]]
           ELSE /\ byHash' = byHash
                /\ track' = [track EXCEPT ![c] = [@ EXCEPT !.pc = "threw"]]
  /\ UNCHANGED queue
  /\ TrackFrame

\* trackFlow: txPollingQueue.add takes effect and the created flow is returned
TrackEnqueue(c) ==
  /\ track[c].pc = "enqueue"
  /\ queue' = Append(queue, track[c].created)
  /\ track' = [track EXCEPT ![c] = [@ EXCEPT !.pc = "returned", !.result = track[c].created]]
  /\ UNCHANGED byHash
  /\ TrackFrame

(* ------------------------------ websocket ------------------------------ *)
WsFrame == UNCHANGED <<engineVars, resumeVars, track, byHash, poller, scan, calc>>

\* wss.on('connection'): the socket is open and gets an empty subscription set
WsConnect(c) ==
  /\ ws.readyState[c] = "new"
  /\ ws' = [ws EXCEPT !.readyState[c] = "open"]
  /\ WsFrame

\* ws.on('message') with {type: 'subscribe', flowId}: the flow id is added to the socket's
\* set and one more listener is registered on the emitter (its off function is dropped)
WsSubscribe(c, f) ==
  /\ ws.readyState[c] = "open"
  /\ ws.messages < MaxWsMessages
  /\ ws' = [ws EXCEPT !.flowSubscriptions = @ \cup {<<c, f>>},
                      !.listeners[c][f] = @ + 1,
                      !.messages = @ + 1]
  /\ WsFrame

\* ws.on('message') with {type: 'unsubscribe', flowId}: subscriptions.delete(flowId)
WsUnsubscribe(c, f) ==
  /\ ws.readyState[c] = "open"
  /\ ws.messages < MaxWsMessages
  /\ ws' = [ws EXCEPT !.flowSubscriptions = @ \ {<<c, f>>},
                      !.messages = @ + 1]
  /\ WsFrame

\* ws.on('close'): the socket's subscription set is cleared and dropped
WsClose(c) ==
  /\ ws.readyState[c] = "open"
  /\ ws' = [ws EXCEPT !.readyState[c] = "closed",
                      !.flowSubscriptions = {p \in @ : p[1] # c}]
  /\ WsFrame

\* emitStatusUpdate(update): every listener of `flow:<id>` runs and sends when its socket
\* is open (readyState === 1)
emitStatusUpdate(f) ==
  /\ ws.published[f] < MaxEvents
  /\ ws' = [ws EXCEPT !.published[f] = @ + 1,
                      !.sent = [c \in Conns |->
                                  IF ws.readyState[c] = "open"
                                    THEN [ws.sent[c] EXCEPT ![f] = @ + ws.listeners[c][f]]
                                    ELSE ws.sent[c]]]
  /\ WsFrame

(* ------------------------------- pollers ------------------------------- *)
PollerFrame ==
  UNCHANGED <<flowType, params, status, errorState, chainProgress, statusLogs, events,
              activeFlows, flowTimeouts, run, client, clientCalls, restarts, now,
              resumeVars, track, byHash, ws, scan, calc>>

\* createPollTimeout: the timer aborts the poller's own controller after timeoutMs
OwnTimerFired(p) == now - p.start >= StageBudget

\* abortSignal = params.abortSignal || controller.signal
SignalAborted(p) == IF p.external THEN p.extAborted ELSE OwnTimerFired(p)

\* all conditions the poller looks for are latched
PollComplete(p) == IF p.kind = "namada" THEN p.a ELSE p.a /\ p.b

\* return of a Tendermint poller: found is the conjunction of what has latched
TmReturn(p) ==
  [p EXCEPT !.pc = "returned", !.todo = 0,
            !.result = IF PollComplete(p) THEN "found" ELSE "notfound"]

\* return {success: false, found: false, error}
NotFound(p) == [p EXCEPT !.pc = "returned", !.todo = 0, !.result = "notfound"]

\* the head of the poll loop: EVM `while (!abortSignal.aborted)`, then getBlockNumber;
\* Tendermint `while (Date.now() < deadline && !complete) { if (abortSignal.aborted) break;`,
\* then getLatestBlockHeight
LoopHead(p) ==
  IF p.kind = "evm"
    THEN IF SignalAborted(p) THEN NotFound(p) ELSE [p EXCEPT !.pc = "tip"]
    ELSE IF now - p.start >= StageBudget \/ PollComplete(p) \/ SignalAborted(p)
           THEN TmReturn(p)
           ELSE [p EXCEPT !.pc = "tip"]

\* the code after the inner loop: `if (complete) break; await sleep(intervalMs)`
AfterScan(p) == IF PollComplete(p) THEN TmReturn(p) ELSE [p EXCEPT !.pc = "sleep", !.todo = 0]

\* the head of the inner loop of a Tendermint poller:
\* `while (nextHeight <= latest && !complete) { if (abortSignal.aborted) break;`, then
\* getBlockResults(nextHeight)
ScanHead(p) ==
  IF p.todo > 0 /\ ~PollComplete(p) /\ ~SignalAborted(p)
    THEN [p EXCEPT !.pc = "block"]
    ELSE AfterScan(p)

\* a poller is invoked; pollUsdcMint without fromBlock first awaits getBlockNumber.  The
\* clock explored reaches the invocation's deadline.
PollerStart ==
  /\ poller.pc = "idle"
  /\ now + StageBudget <= MaxTime
  /\ \E k \in PollerKinds, ext, big, from \in BOOLEAN :
       /\ (k # "evm") => (big = FALSE /\ from = TRUE)
       /\ LET p == [IdlePoller EXCEPT !.kind = k, !.external = ext, !.bigint = big,
                                      !.start = now]
          IN  poller' = IF k = "evm" /\ ~from THEN [p EXCEPT !.pc = "first"] ELSE LoopHead(p)
  /\ PollerFrame

\* pollUsdcMint: the getBlockNumber before the loop returns
PollerFirstReturns ==
  /\ poller.pc = "first"
  /\ poller' = LoopHead(poller)
  /\ PollerFrame

\* getBlockNumber / getLatestBlockHeight returns.  EVM: a tip behind fromBlock sleeps,
\* otherwise getLogs is requested at once.  Tendermint: the heights up to the tip are scanned.
PollerTipReturns ==
  /\ poller.pc = "tip"
  /\ IF poller.kind = "evm"
       THEN \E behind \in BOOLEAN :
              poller' = IF behind THEN [poller EXCEPT !.pc = "sleep"]
                        ELSE [poller EXCEPT !.pc = "block",
                                            !.rpcAfterAbort = @ \/ SignalAborted(poller)]
       ELSE \E n \in 0..MaxScan : poller' = ScanHead([poller EXCEPT !.todo = n])
  /\ PollerFrame

\* getBlockNumber / getLatestBlockHeight throws: the outer catch returns found: false
PollerTipFails ==
  /\ poller.pc = "tip"
  /\ poller' = NotFound(poller)
  /\ PollerFrame

\* getLogs / getBlockResults returns.  EVM: a matching log returns found; otherwise
\* `fromBlock = latest + 1n` throws a TypeError when latest is a number, and sleeps when it
\* is a bigint.  Tendermint: conditions found at this height latch, nextHeight++.
PollerBlockReturns ==
  /\ poller.pc = "block"
  /\ IF poller.kind = "evm"
       THEN \E match \in BOOLEAN :
              poller' = IF match THEN [poller EXCEPT !.pc = "returned", !.result = "found"]
                        ELSE IF poller.bigint THEN [poller EXCEPT !.pc = "sleep"]
                        ELSE NotFound(poller)
       ELSE \E fa, fb \in BOOLEAN :
              /\ (poller.kind = "namada") => (fb => fa)
              /\ poller' = ScanHead([poller EXCEPT !.a = @ \/ fa, !.b = @ \/ fb, !.todo = @ - 1])
  /\ PollerFrame

\* sleep(intervalMs) is over: back to the head of the poll loop
PollerWakes ==
  /\ poller.pc = "sleep"
  /\ poller' = LoopHead(poller)
  /\ PollerFrame

\* the caller aborts the signal it supplied while the poller runs
PollerAbort ==
  /\ poller.pc \notin {"idle", "returned"}
  /\ poller.external /\ ~poller.extAborted
  /\ poller' = [poller EXCEPT !.extAborted = TRUE]
  /\ PollerFrame

(* ---------------------------- specifications --------------------------- *)
\* the worker and the engine under restarts, cancellation and the clock
Next ==
  \/ \E r \in Runs : ProcessJob(r)
  \/ \E r \in Runs : PollReturn(r)
  \/ \E r \in Runs : UpdateRead(r)
  \/ \E r \in Runs : UpdateWrite(r)
  \/ \E r \in Runs : ConfirmLog(r)
  \/ \E r \in Runs : MarkCompleted(r)
  \/ \E r \in Runs : TimeoutRead(r)
  \/ \E r \in Runs : TimeoutWrite(r)
  \/ \E r \in Runs : TimeoutLog(r)
  \/ \E r \in Runs : CatchRead(r)
  \/ \E r \in Runs : CatchWrite(r)
  \/ \E r \in Runs : TipReturn(r)
  \/ \E r \in Runs : TipFails(r)
  \/ \E r \in Runs : StartBlockWrite(r)
  \/ stopFlow
  \/ Restart
  \/ Tick

Spec == Init /\ [][Next]_vars

\* one job of the flow, with appendClientStage requests arriving while it runs
NextClient ==
  \/ ProcessJob(1)
  \/ PollReturn(1)
  \/ UpdateRead(1)
  \/ UpdateWrite(1)
  \/ ConfirmLog(1)
  \/ MarkCompleted(1)
  \/ TimeoutRead(1)
  \/ TimeoutWrite(1)
  \/ TimeoutLog(1)
  \/ CatchRead(1)
  \/ CatchWrite(1)
  \/ TipReturn(1)
  \/ TipFails(1)
  \/ StartBlockWrite(1)
  \/ stopFlow
  \/ ClientRead
  \/ ClientWrite
  \/ ClientLog
  \/ Tick

SpecClient == Init /\ [][NextClient]_vars

\* resumeUnfinishedFlows over a table of stored flows
NextResume ==
  \/ ListUnfinished
  \/ EnqueueResumeJob

SpecResume == InitResume /\ [][NextResume]_vars

\* trackFlow calls, sequential or overlapping, on an empty table
InitTrack ==
  /\ InitResume
  /\ stored = <<>>

NextTrack ==
  \/ \E c \in 1..MaxTrackCalls : TrackFind(c)
  \/ \E c \in 1..MaxTrackCalls : TrackResolve(c)
  \/ \E c \in 1..MaxTrackCalls : TrackCreate(c)
  \/ \E c \in 1..MaxTrackCalls : TrackEnqueue(c)

SpecTrack == InitTrack /\ [][NextTrack]_vars

\* the WebSocket server: connections, their subscribe and unsubscribe messages, and the
\* status updates the emitter publishes
InitWs ==
  /\ InitResume
  /\ stored = <<>>

NextWs ==
  \/ \E c \in Conns : WsConnect(c)
  \/ \E c \in Conns, f \in WsFlows : WsSubscribe(c, f)
  \/ \E c \in Conns, f \in WsFlows : WsUnsubscribe(c, f)
  \/ \E c \in Conns : WsClose(c)
  \/ \E f \in WsFlows : emitStatusUpdate(f)

SpecWs == InitWs /\ [][NextWs]_vars

\* one poller invocation, its caller's abort and the clock
InitPoller ==
  /\ InitResume
  /\ stored = <<>>

PollerStep ==
  \/ PollerFirstReturns
  \/ PollerTipReturns
  \/ PollerBlockReturns
  \/ PollerWakes

NextPoller ==
  \/ PollerStart
  \/ PollerStep
  \/ PollerTipFails
  \/ PollerAbort
  \/ Tick

SpecPoller == InitPoller /\ [][NextPoller]_vars

\* the same with RPC calls and sleeps that return and a clock that advances
SpecPollerFair == SpecPoller /\ WF_vars(PollerStep) /\ WF_vars(Tick)

(* ------------------ Noble pollForDeposit over block contents ----------- *)
ScanFrame == UNCHANGED <<engineVars, resumeVars, track, byHash, ws, poller, calc>>

\* NoblePollParams of the call
ScanParams ==
  [forwardingAddress |-> "noble1fwd", namadaReceiver |-> "tnam1rcv",
   expectedAmountUusdc |-> "1000000uusdc"]

\* an event after indexAttributes: its type and its attributes by key ("": no such key)
Ev(t, s, r, a, d) == [type |-> t, sender |-> s, receiver |-> r, amount |-> a, denom |-> d]

\* events a block's txs_results[].events may carry: the expected coin_received, ones that
\* differ from it in one attribute or in the type, and an ibc_transfer
TxEvents ==
  {Ev("coin_received", "", "noble1fwd", "1000000uusdc", ""),
   Ev("coin_received", "", "noble1other", "1000000uusdc", ""),
   Ev("coin_received", "", "noble1fwd", "999999uusdc", ""),
   Ev("coin_spent", "", "noble1fwd", "1000000uusdc", ""),
   Ev("ibc_transfer", "noble1fwd", "tnam1rcv", "1000000", "uusdc")}

\* events a block's finalize_block_events may carry: the expected ibc_transfer, ones that
\* differ from it in one attribute, and a coin_received
FinalizeEvents ==
  {Ev("ibc_transfer", "noble1fwd", "tnam1rcv", "1000000", "uusdc"),
   Ev("ibc_transfer", "noble1other", "tnam1rcv", "1000000", "uusdc"),
   Ev("ibc_transfer", "noble1fwd", "tnam1other", "1000000", "uusdc"),
   Ev("ibc_transfer", "noble1fwd", "tnam1rcv", "1000000", "uatom"),
   Ev("coin_received", "", "noble1fwd", "1000000uusdc", "")}

\* BlockResults: txs_results[].events and finalize_block_events
BlockResults ==
  {[txs |-> t, fin |-> f] :
     t \in {x \in SUBSET TxEvents : Cardinality(x) <= MaxBlockEvents},
     f \in {x \in SUBSET FinalizeEvents : Cardinality(x) <= MaxBlockEvents}}

\* a coin_received test that does not look at the amount
coinReceivedAnyAmount(p, ev) ==
  /\ ev.type = "coin_received"
  /\ ev.receiver = p.forwardingAddress

\* the test of a coin_received event of txs_results
coinReceivedMatches(p, ev) ==
  /\ ev.type = "coin_received"
  /\ p.forwardingAddress # ""
  /\ ev.receiver = p.forwardingAddress
  /\ p.expectedAmountUusdc # ""
  /\ ev.amount = p.expectedAmountUusdc

\* the test of an ibc_transfer event of finalize_block_events
ibcTransferMatches(p, ev) ==
  /\ ev.type = "ibc_transfer"
  /\ p.forwardingAddress # ""
  /\ p.namadaReceiver # ""
  /\ ev.sender = p.forwardingAddress
  /\ ev.receiver = p.namadaReceiver
  /\ ev.denom = "uusdc"

\* what a block read carried: a coin_received of a transaction paying the expected amount
\* to the forwarding address, one paying it another amount, and an ibc_transfer among the
\* finalize-block events from the forwarding address to the Namada receiver in uusdc
Carried(blk) ==
  [deposit |-> \E ev \in blk.txs : /\ ev.type = "coin_received"
                                   /\ ev.receiver = "noble1fwd"
                                   /\ ev.amount = "1000000uusdc",
   otherAmount |-> \E ev \in blk.txs : /\ ev.type = "coin_received"
                                       /\ ev.receiver = "noble1fwd"
                                       /\ ev.amount # "1000000uusdc",
   forward |-> \E ev \in blk.fin : /\ ev.type = "ibc_transfer"
                                   /\ ev.sender = "noble1fwd"
                                   /\ ev.receiver = "tnam1rcv"
                                   /\ ev.denom = "uusdc"]

NothingCarried == [deposit |-> FALSE, otherAmount |-> FALSE, forward |-> FALSE]

\* the return statement after the loops
ScanReturn(sc) ==
  [sc EXCEPT !.pc = "returned", !.found = sc.receivedFound /\ sc.forwardFound]

\* the end of one pass of the inner loop: nextHeight++, then the inner loop's condition,
\* `if (receivedFound && forwardFound) break` and the sleep
AfterBlock(sc) ==
  LET n == [sc EXCEPT !.nextHeight = sc.nextHeight + 1]
  IN  IF n.receivedFound /\ n.forwardFound THEN ScanReturn(n)
      ELSE IF n.nextHeight <= n.latest THEN [n EXCEPT !.pc = "block"]
      ELSE [n EXCEPT !.pc = "sleep"]

\* the request for nextHeight is recorded
Requested(sc, outcome, carried) ==
  [sc EXCEPT !.requests = Append(sc.requests, [height |-> sc.nextHeight, tip |-> sc.latest,
                                               outcome |-> outcome, carried |-> carried])]

\* pollForDeposit is called: the locals are initialised and the outer loop is entered
ScanStart ==
  /\ scan.pc = "idle"
  /\ \E h \in 1..(MaxHeight - 1) :
       scan' = [IdleScan EXCEPT !.pc = "head", !.startHeight = h, !.nextHeight = h]
  /\ ScanFrame

\* getLatestBlockHeight returns: wait when nextHeight is ahead, else enter the inner loop
ScanTipReturns ==
  /\ scan.pc = "head"
  /\ \E l \in 1..MaxHeight :
       /\ l >= scan.latest
       /\ scan' = [scan EXCEPT !.latest = l,
                               !.pc = IF scan.nextHeight > l THEN "sleep" ELSE "block"]
  /\ ScanFrame

\* getLatestBlockHeight throws: the outer catch returns found: false
ScanTipFails ==
  /\ scan.pc = "head"
  /\ scan' = [scan EXCEPT !.pc = "returned", !.found = FALSE, !.error = TRUE]
  /\ ScanFrame

\* getBlockResults(nextHeight) returns a block: both event lists are scanned
ScanBlockReturns ==
  /\ scan.pc = "block"
  /\ \E blk \in BlockResults :
       LET rf == scan.receivedFound \/ \E ev \in blk.txs : coinReceivedMatches(ScanParams, ev)
           ff == scan.forwardFound \/ \E ev \in blk.fin : ibcTransferMatches(ScanParams, ev)
           sc == Requested(scan, "ok", Carried(blk))
       IN  scan' = AfterBlock([sc EXCEPT !.receivedFound = rf, !.forwardFound = ff])
  /\ ScanFrame

\* getBlockResults(nextHeight) returns null: `nextHeight++; continue`
ScanBlockNull ==
  /\ scan.pc = "block"
  /\ scan' = AfterBlock(Requested(scan, "null", NothingCarried))
  /\ ScanFrame

\* a getBlockResults failure that ends the poll the way the outer catch does
ScanBlockFailsEndsPoll ==
  /\ scan.pc = "block"
  /\ scan' = [Requested(scan, "error", NothingCarried) EXCEPT !.pc = "returned", !.error = TRUE]
  /\ ScanFrame

\* getBlockResults(nextHeight) throws: the inner catch logs, then nextHeight++
ScanBlockFails ==
  /\ scan.pc = "block"
  /\ scan' = AfterBlock(Requested(scan, "error", NothingCarried))
  /\ ScanFrame

\* the sleep ends: back to the outer loop's condition
ScanWakes ==
  /\ scan.pc = "sleep"
  /\ scan' = [scan EXCEPT !.pc = "head"]
  /\ ScanFrame

\* the deadline has passed at the outer loop's condition, or abortSignal.aborted is seen
\* at the head of either loop: the loops are left and the flags are returned
ScanStops ==
  /\ scan.pc \in {"head", "block"}
  /\ scan' = ScanReturn(scan)
  /\ ScanFrame

InitScan ==
  /\ InitResume
  /\ stored = <<>>

NextScan ==
  \/ ScanStart
  \/ ScanTipReturns
  \/ ScanTipFails
  \/ ScanBlockReturns
  \/ ScanBlockNull
  \/ ScanBlockFails
  \/ ScanWakes
  \/ ScanStops

SpecScan == InitScan /\ [][NextScan]_vars

\* one engine run of the flow under the clock: no cancellation, restart or client request
NextRun ==
  \/ ProcessJob(1)
  \/ PollReturn(1)
  \/ UpdateRead(1)
  \/ UpdateWrite(1)
  \/ ConfirmLog(1)
  \/ MarkCompleted(1)
  \/ TimeoutRead(1)
  \/ TimeoutWrite(1)
  \/ TimeoutLog(1)
  \/ CatchRead(1)
  \/ CatchWrite(1)
  \/ TipReturn(1)
  \/ TipFails(1)
  \/ StartBlockWrite(1)
  \/ Tick

SpecRun == Init /\ [][NextRun]_vars

(* --------------------- functions of the pollers and of params.ts ------- *)
CalcFrame == UNCHANGED <<engineVars, resumeVars, track, byHash, ws, poller, scan>>

\* an amount string: its digits and whether it ends in "uusdc"
Amount(d, sfx) == [digits |-> d, uusdc |-> sfx]

\* amount.replace('uusdc', '')
StripUusdc(a) == a.digits

\* NamadaPollParams of the call; denom is params.denom || 'uusdc'
NamadaParams ==
  [forwardingAddress |-> "noble1fwd", namadaReceiver |-> "tnam1rcv", denom |-> "uusdc",
   expectedAmountUusdc |-> Amount("1000000", TRUE)]

\* packet_data: whether JSON.parse accepts it, and its fields
PacketData(ok, s, r, d, a) ==
  [parsed |-> ok, sender |-> s, receiver |-> r, denom |-> d, amount |-> a]

NoPacketData == PacketData(FALSE, "", "", "", Amount("", FALSE))
ExpectedPacket == PacketData(TRUE, "noble1fwd", "tnam1rcv", "uusdc", Amount("1000000", FALSE))

\* an end-block event after indexAttributes: type, packet_ack, packet_data and
\* inner-tx-hash ("": no such attribute)
NamadaEv(t, ack, data, inner) == [type |-> t, ack |-> ack, data |-> data, inner |-> inner]

\* events a Namada block's end_block_events may carry
NamadaEvents ==
  {NamadaEv("message", "", NoPacketData, "DCAB"),
   NamadaEv("message", "", NoPacketData, "78B9"),
   NamadaEv("write_acknowledgement", "{\"result\":\"AQ==\"}", ExpectedPacket, ""),
   NamadaEv("write_acknowledgement", "{\"result\":\"AQ==\"}", ExpectedPacket, "ACK1"),
   NamadaEv("write_acknowledgement", "{\"result\":\"AQ==\"}",
            PacketData(TRUE, "noble1fwd", "tnam1other", "uusdc", Amount("1000000", FALSE)), ""),
   NamadaEv("write_acknowledgement", "{\"error\":\"x\"}", ExpectedPacket, ""),
   NamadaEv("write_acknowledgement", "{\"result\":\"AQ==\"}", NoPacketData, "")}

\* sequences of at most n elements of S
SeqUpTo(S, n) == UNION {[1..k -> S] : k \in 0..n}

\* the test of one end-block event in the Namada pollForDeposit
namadaAckMatches(p, ev) ==
  /\ ev.type = "write_acknowledgement"
  /\ ev.ack = "{\"result\":\"AQ==\"}"
  /\ ev.data.parsed
  /\ p.namadaReceiver # "" /\ ev.data.receiver = p.namadaReceiver
  /\ p.forwardingAddress # "" /\ ev.data.sender = p.forwardingAddress
  /\ ev.data.denom = p.denom
  /\ StripUusdc(p.expectedAmountUusdc) = StripUusdc(ev.data.amount)

\* the scan of one block by the Namada pollForDeposit: `json?.result?.end_block_events || []`
\* (wrapped: the value getBlockResults returned has a result field), the loop over the
\* events up to the first match, and what the poll then returns
namadaScanBlock(p, h, wrapped, evs) ==
  LET endEvents == IF wrapped THEN evs ELSE <<>>
      hits == {i \in 1..Len(endEvents) : namadaAckMatches(p, endEvents[i])}
  IN  IF hits = {} THEN [ackFound |-> FALSE, foundAt |-> Undef, namadaTxHash |-> ""]
      ELSE LET i == CHOOSE x \in hits : \A y \in hits : x <= y
           IN  [ackFound |-> TRUE, foundAt |-> h, namadaTxHash |-> endEvents[i].inner]

\* the Namada pollForDeposit scans the block at height h
NamadaBlockScanned ==
  /\ calc.op = "none"
  /\ \E h \in 1..MaxHeight, w \in BOOLEAN, evs \in SeqUpTo(NamadaEvents, MaxBlockEvents) :
       calc' = [op |-> "namadaScanBlock", height |-> h, wrapped |-> w, block |-> evs,
                out |-> namadaScanBlock(NamadaParams, h, w, evs)]
  /\ CalcFrame

\* an attribute value: its text and whether it is wrapped in double quotes
Quoted(t, q) == [text |-> t, quoted |-> q]

\* stripQuotes
stripQuotes(s) == [s EXCEPT !.quoted = FALSE]

\* destinationDomain values of the params and destination_domain values of an event
\* (Undef: not given)
Domains == {0, 4, Undef}

\* NoblePollParams of a pollForOrbiter call
OrbiterParams(dom) ==
  [amount |-> Quoted("1000000", FALSE), destinationCallerB64 |-> Quoted("Y2FsbGVy", FALSE),
   mintRecipientB64 |-> Quoted("bWludA==", FALSE), destinationDomain |-> dom]

\* events of txs_results a pollForOrbiter scan may meet
CctpEvents ==
  [type : {"circle.cctp.v1.DepositForBurn", "circle.cctp.v1.MintAndWithdraw"},
   amount : {Quoted("1000000", TRUE), Quoted("1000000", FALSE), Quoted("999999", TRUE)},
   destination_caller : {Quoted("Y2FsbGVy", TRUE), Quoted("b3RoZXI=", TRUE)},
   mint_recipient : {Quoted("bWludA==", TRUE), Quoted("b3RoZXI=", TRUE)},
   destination_domain : Domains]

\* the test of a circle.cctp.v1.DepositForBurn event in pollForOrbiter; a number is truthy
\* when it is neither undefined nor 0, and Number(undefined) is NaN, equal to nothing
depositForBurnMatches(p, ev) ==
  /\ ev.type = "circle.cctp.v1.DepositForBurn"
  /\ p.amount.text # ""
  /\ p.destinationCallerB64.text # ""
  /\ p.mintRecipientB64.text # ""
  /\ p.destinationDomain \notin {Undef, 0}
  /\ stripQuotes(ev.amount) = p.amount
  /\ stripQuotes(ev.destination_caller) = p.destinationCallerB64
  /\ stripQuotes(ev.mint_recipient) = p.mintRecipientB64
  /\ ev.destination_domain # Undef
  /\ ev.destination_domain = p.destinationDomain

\* pollForOrbiter tests one event with cctpFound still false
OrbiterEventTested ==
  /\ calc.op = "none"
  /\ \E dom \in Domains, ev \in CctpEvents :
       calc' = [op |-> "depositForBurn", params |-> OrbiterParams(dom), ev |-> ev,
                out |-> depositForBurnMatches(OrbiterParams(dom), ev)]
  /\ CalcFrame

\* a metadata value or a params value: absent (undefined / null), a number, or a string
\* given by an amount string (its text and whether "uusdc" follows it)
AbsentV == [kind |-> "absent", str |-> Amount("", FALSE)]
NumberV == [kind |-> "number", str |-> Amount("7", FALSE)]
Str(t) == [kind |-> "string", str |-> Amount(t, FALSE)]
StrUusdc(t) == [kind |-> "string", str |-> Amount(t, TRUE)]

\* value.trim().length > 0, for the strings explored: "" and " " are blank
NonBlank(v) == v.str.uusdc \/ v.str.digits \notin {"", " "}

\* a string of length > 0
NonEmpty(v) == v.kind = "string" /\ (v.str.uusdc \/ v.str.digits # "")

\* a getString that accepts every string of length > 0
getStringUntrimmed(v) == IF NonEmpty(v) THEN v ELSE AbsentV

\* getString(metadata, key) applied to the value of the key
getString(v) == IF v.kind = "string" /\ NonBlank(v) THEN v ELSE AbsentV

\* a ?? b
Coalesce(a, b) == IF a.kind # "absent" THEN a ELSE b

\* `if (value) params.key = value` for a string or undefined
SetIfTruthy(v) == IF NonEmpty(v) THEN v ELSE AbsentV

\* the stored flows explored: txHash and the metadata keys of three derived keys (the other
\* derived keys follow the pattern of forwardingAddress or have a single key);
\* hasMetadata = FALSE is metadata null
FlowRows ==
  {f \in [txHash : {AbsentV, Str(""), Str("0xt")},
          hasMetadata : BOOLEAN,
          evmBurnTxHash : {AbsentV, NumberV, Str(" "), Str("0xp")},
          burnTxHash : {AbsentV, Str(""), Str("0xf")},
          forwardingAddress : {AbsentV, Str(" "), Str("noble1p")},
          nobleForwardingAddress : {AbsentV, Str("noble1f")},
          expectedAmountUusdc : {AbsentV, StrUusdc("5")},
          amountBaseUnits : {AbsentV, Str("7"), StrUusdc("7")},
          amount : {AbsentV, Str("9")}] :
     f.hasMetadata \/ (/\ f.evmBurnTxHash = AbsentV /\ f.burnTxHash = AbsentV
                       /\ f.forwardingAddress = AbsentV /\ f.nobleForwardingAddress = AbsentV
                       /\ f.expectedAmountUusdc = AbsentV /\ f.amountBaseUnits = AbsentV
                       /\ f.amount = AbsentV)}

\* FlowTrackingParams with no key set
NoTrackingParams ==
  [evmBurnTxHash |-> AbsentV, forwardingAddress |-> AbsentV,
   amountBaseUnits |-> AbsentV, expectedAmountUusdc |-> AbsentV]

\* buildFlowTrackingParams
buildFlowTrackingParams(flow) ==
  LET amountBaseUnits == Coalesce(getString(flow.amountBaseUnits), getString(flow.amount))
      suffixed == IF amountBaseUnits.kind = "absent" THEN AbsentV
                  ELSE IF amountBaseUnits.str.uusdc THEN amountBaseUnits
                  ELSE StrUusdc(amountBaseUnits.str.digits)
  IN  [evmBurnTxHash |-> SetIfTruthy(Coalesce(getString(flow.evmBurnTxHash),
                                     Coalesce(getString(flow.burnTxHash), flow.txHash))),
       forwardingAddress |-> SetIfTruthy(Coalesce(getString(flow.forwardingAddress),
                                                  getString(flow.nobleForwardingAddress))),
       amountBaseUnits |-> SetIfTruthy(amountBaseUnits),
       expectedAmountUusdc |-> SetIfTruthy(Coalesce(getString(flow.expectedAmountUusdc),
                                                    suffixed))]

\* the params of a resume job: `(flow.metadata as FlowTrackingParams) ||
\* { evmBurnTxHash: flow.txHash || undefined }`
resumeParams(flow) ==
  IF flow.hasMetadata
  THEN [evmBurnTxHash |-> flow.evmBurnTxHash, forwardingAddress |-> flow.forwardingAddress,
        amountBaseUnits |-> flow.amountBaseUnits,
        expectedAmountUusdc |-> flow.expectedAmountUusdc]
  ELSE [NoTrackingParams EXCEPT !.evmBurnTxHash = SetIfTruthy(flow.txHash)]

\* trackFlow derives the params of the original job of a created flow, and
\* resumeUnfinishedFlows those of its resume job
ParamsDerived ==
  /\ calc.op = "none"
  /\ \E f \in FlowRows :
       calc' = [op |-> "params", flow |-> f, out |-> buildFlowTrackingParams(f),
                resume |-> resumeParams(f)]
  /\ CalcFrame

\* the chain ids of FALLBACK_REGISTRY
FALLBACK_REGISTRY ==
  {"sepolia", "base-sepolia", "avalanche-fuji", "polygon-amoy", "noble-testnet",
   "namada-testnet"}

\* getChainEntry(registry, chainId) returns an entry (it throws 'Unknown chain identifier'
\* otherwise)
getChainEntry(registry, chainId) == chainId \in registry

\* the stages of a flow type at which the engine calls rpcFactory and getPollingConfig
ClientStages(ft) ==
  IF ft = "deposit" THEN {"evm_burn", "noble_deposit", "namada_receive"}
  ELSE {"noble_payment", "evm_mint"}

\* the chain id the engine passes to rpcFactory and getPollingConfig at a stage
EngineChainId(stage, flow) ==
  CASE stage = "evm_burn" -> flow.initialChain
    [] stage = "noble_deposit" -> "noble-testnet"
    [] stage = "namada_receive" -> "namada-testnet"
    [] stage = "noble_payment" -> "noble"
    [] stage = "evm_mint" -> flow.destinationChain

\* the engine requests the RPC client of a stage, for a flow whose initialChain and
\* destinationChain passed validateChain at registration
ClientRequested ==
  /\ calc.op = "none"
  /\ \E ft \in FlowTypes, ic \in FALLBACK_REGISTRY, dc \in FALLBACK_REGISTRY :
       \E stage \in ClientStages(ft) :
         LET id == EngineChainId(stage, [initialChain |-> ic, destinationChain |-> dc])
         IN  calc' = [op |-> "rpcFactory", flowType |-> ft, stage |-> stage,
                      initialChain |-> ic, destinationChain |-> dc, chainId |-> id,
                      known |-> getChainEntry(FALLBACK_REGISTRY, id)]
  /\ CalcFrame

InitCalc ==
  /\ InitResume
  /\ stored = <<>>

NextCalc ==
  \/ NamadaBlockScanned
  \/ OrbiterEventTested
  \/ ParamsDerived
  \/ ClientRequested

SpecCalc == InitCalc /\ [][NextCalc]_vars

(* ------------------------------ properties ----------------------------- *)
StoreVars == <<status, errorState, chainProgress, statusLogs, events>>

\* C1: once the persisted status is completed, failed or undetermined, no later operation
\* changes it to another value
C1_TerminalStatusFinal == [][(status \in Terminal) => (status' = status)]_vars

\* C2: an engine run that returns without having been cancelled leaves the flow in a
\* terminal status; no flow is left pending by a run that has returned
C2_ReturnedRunLeavesTerminal ==
  [][\A r \in Runs :
       (run[r].pc # "done" /\ ~run[r].aborted /\ run'[r].pc = "done") => status' \in Terminal]_vars

\* C3: a run whose last stage poll ended with the budget exhausted returns with status
\* undetermined; a run whose stage poll returned without a match, the budget not exhausted
\* and the run not cancelled, returns or goes on to its next stage only with status failed
C3_TimeoutUndeterminedNoMatchFailed ==
  [][\A r \in Runs :
       /\ (run[r].pc # "done" /\ run'[r].pc = "done" /\ run'[r].lastPoll = "exhausted")
            => status' = "undetermined"
       /\ (run[r].pc # "done" /\ run'[r].lastPoll = "incomplete"
             /\ (run'[r].pc = "done" \/ run'[r].stage # run[r].stage))
            => status' = "failed"]_vars

\* C4: the tracker engine runs only for a job whose loaded flow had status pending
C4_EngineOnlyForPending == \A r \in Runs : InProgress(r) => run[r].loaded = "pending"

\* number of jobs in the queue for flow id i
JobsFor(i) == Cardinality({k \in 1..Len(queue) : queue[k] = i})

\* C5: when resumeUnfinishedFlows has returned, the queue holds exactly one job for each
\* stored flow (with a flow type) whose status is pending and none for a terminal flow
C5_ResumeOnlyPending ==
  ResumeDone =>
    \A i \in 1..Len(stored) :
      /\ (stored[i].flowType # "null" /\ stored[i].status = "pending") => JobsFor(i) = 1
      /\ stored[i].status \in Terminal => JobsFor(i) = 0

\* C6: a step of an engine run that was started on a flow already terminal writes no
\* chainProgress, status or errorState, appends no StatusLog row and publishes no event
C6_RunOnTerminalFlowIsNoOp ==
  [][\A r \in Runs :
       (run[r].loaded \in Terminal /\ run'[r] # run[r] /\ run'[r].pc # "dead")
         => UNCHANGED StoreVars]_vars

\* C7: at most one engine run of the flow is in progress at any time
C7_OneRunPerFlow == Cardinality({r \in Runs : InProgress(r)}) <= 1

\* C8: after stopFlow was called during a run's stage poll with budget left, the next step of
\* that run (taken while the poll's budget is still not exhausted) is its return, and it
\* leaves status, errorState and the StatusLog rows as they were
C8_StopReturnsWithoutWriting ==
  [][\A r \in Runs :
       (run[r].stopSeen /\ run[r].pc = "poll" /\ now - run[r].pollStart < StageBudget
          /\ run'[r] # run[r])
         => (run'[r].pc \in {"done", "dead"} /\ UNCHANGED <<status, errorState, statusLogs>>)]_vars

\* C9: a persisted startBlock never changes once it is set
C9_StartBlockWrittenOnce ==
  [][\A c \in Chains :
       chainProgress[c].startBlock # Undef
         => chainProgress'[c].startBlock = chainProgress[c].startBlock]_vars

\* StatusLog rows with detail status confirmed for a stage symbol
ConfirmedRows(symbol) ==
  {k \in 1..Len(statusLogs) : statusLogs[k].stage = symbol /\ statusLogs[k].status = "confirmed"}

\* C10: at most one StatusLog row with status confirmed exists per stage symbol
C10_OneConfirmedRowPerStage ==
  \A k \in 1..Len(statusLogs) : Cardinality(ConfirmedRows(statusLogs[k].stage)) <= 1

\* no engine run of the flow is under way and none was cut off by a restart
Quiescent == \A r \in Runs : run[r].pc \in {"none", "queued", "skipped", "done"}

\* StatusLog rows of a chain with a detail status
RowsWith(chain, st) ==
  {k \in 1..Len(statusLogs) : statusLogs[k].chain = chain /\ statusLogs[k].status = st}

\* C11: once the engine runs have returned, every chain entry they set to confirmed has a
\* confirmed StatusLog row of that chain, and a flow set to failed or undetermined has a
\* failed row: no transition without a row
C11_EveryTransitionHasRow ==
  Quiescent =>
    /\ \A c \in Chains : chainProgress[c].status = "confirmed" => RowsWith(c, "confirmed") # {}
    /\ status \in {"failed", "undetermined"} => \E c \in Chains : RowsWith(c, "failed") # {}

\* the trackFlow calls with txHash h that have ended
EndedCalls(h) ==
  {c \in 1..MaxTrackCalls : track[c].txHash = h /\ track[c].pc \in {"returned", "threw"}}

\* C12: any two trackFlow calls with the same txHash that have ended both returned the same
\* flow id, and once all calls with that txHash have ended exactly one job for the flow is
\* in the queue
C12_TrackFlowIdempotent ==
  \A h \in TxHashes :
    /\ \A c, d \in EndedCalls(h) :
         /\ track[c].pc = "returned"
         /\ track[c].result = track[d].result
    /\ (EndedCalls(h) # {} /\ \A c \in 1..MaxTrackCalls : track[c].txHash = h => c \in EndedCalls(h))
         => JobsFor(byHash[h]) = 1

IsPrefix(p, q) == Len(p) <= Len(q) /\ \A k \in 1..Len(p) : p[k] = q[k]

\* C13: every write leaves each chain's stages and gaslessStages lists with the old list as
\* a prefix of the new one
C13_StagesAppendOnly ==
  [][\A c \in Chains :
       /\ IsPrefix(chainProgress[c].stages, chainProgress'[c].stages)
       /\ IsPrefix(chainProgress[c].gaslessStages, chainProgress'[c].gaslessStages)]_vars

\* the chain that ends a flow of the type and the StatusLog symbol of its terminating stage
FinalChain(ft) == IF ft = "payment" THEN "evm" ELSE "namada"
TerminatingStage(ft) == IF ft = "payment" THEN "evm_mint_confirmed" ELSE "namada_received"

\* C14: a flow with status completed has its final chain's entry confirmed and a confirmed
\* StatusLog row of that chain's terminating stage
C14_CompletedMeansFinalConfirmed ==
  status = "completed" =>
    /\ chainProgress[FinalChain(flowType)].status = "confirmed"
    /\ \E k \in 1..Len(statusLogs) :
         /\ statusLogs[k].stage = TerminatingStage(flowType)
         /\ statusLogs[k].status = "confirmed"

\* the deposit inputs of the happy path: forwardingAddress and namadaReceiver, no EVM burn hash
HappyDepositInput ==
  /\ flowType = "deposit"
  /\ params.forwardingAddress /\ params.namadaReceiver /\ ~params.evmBurnTxHash

\* the stage symbols of the flow's StatusLog rows, in creation order
RowStages == [k \in 1..Len(statusLogs) |-> statusLogs[k].stage]

\* C15: a deposit run whose Noble poll found coin_received and ibc_transfer and whose Namada
\* poll found the acknowledgement with its inner tx hash, all within the stage budgets, ends
\* with the flow completed, noble and namada confirmed, the Namada txHash the poller's, and
\* exactly the rows noble_cctp_minted, noble_ibc_forwarded, namada_received in this order.
C15_DepositHappyPath ==
  (/\ run[1].pc = "done" /\ HappyDepositInput
   /\ chainProgress["namada"].startBlock # Undef      \* the Namada poll was reached
   /\ run[1].lastPoll = "match" /\ now < StageBudget)
    => /\ status = "completed"
       /\ chainProgress["noble"].status = "confirmed"
       /\ chainProgress["namada"].status = "confirmed"
       /\ chainProgress["namada"].txHash = "poller"
       /\ RowStages = <<"noble_cctp_minted", "noble_ibc_forwarded", "namada_received">>
       /\ \A k \in 1..Len(statusLogs) : statusLogs[k].status = "confirmed"

\* the stages of a flow type, in the order the engine runs them
StageOrder(ft) ==
  IF ft = "payment" THEN <<"namada_ibc", "noble_payment", "evm_mint">>
  ELSE <<"evm_burn", "noble_deposit", "namada_receive">>

\* the prerequisites the engine tests before it runs a stage
HasPrereqs(s) ==
  IF s = "evm_burn" THEN params.evmBurnTxHash /\ chainProgress["evm"].present
  ELSE IF s = "noble_deposit" THEN params.forwardingAddress /\ params.namadaReceiver
  ELSE IF s = "namada_receive" THEN params.namadaReceiver
  ELSE IF s = "namada_ibc" THEN params.namadaIbcTxHash
  ELSE IF s = "noble_payment" THEN params.memoReceiverAmount
  ELSE params.mintRecipientB64

\* run r starts the poll of a stage in this step
PollStarts(r) == run'[r].pc = "poll" /\ (run[r].pc # "poll" \/ run[r].stage # run'[r].stage)

\* C16: the poll of a stage starts only when no other poll of the flow is in progress and
\* every stage before it in the flow-type order is confirmed or lacks its prerequisites.
C16_StagesSequential ==
  [][\A r \in Runs : PollStarts(r) =>
       /\ \A q \in Runs \ {r} : run'[q].pc # "poll"
       /\ \A i, j \in 1..3 :
            (i < j /\ StageOrder(flowType)[j] = run'[r].stage /\ HasPrereqs(StageOrder(flowType)[i]))
              => chainProgress'[StageChain(StageOrder(flowType)[i])].status = "confirmed"]_vars

\* C17: a connection that is not subscribed to a flow (it unsubscribed, or never subscribed)
\* is sent no status-update message for that flow.
C17_NoMessageAfterUnsubscribe ==
  [][\A c \in Conns, f \in WsFlows :
       (<<c, f>> \notin ws.flowSubscriptions) => (ws'.sent[c][f] = ws.sent[c][f])]_vars

\* C18: a connection is sent each published event of a flow at most once, however many
\* subscribe messages it sent.
C18_AtMostOncePerConnection ==
  \A c \in Conns, f \in WsFlows : ws.sent[c][f] <= ws.published[f]

\* C19: a poller that was invoked returns (with found = false when nothing matched), also
\* when the caller supplied an abort signal and never aborts it.
C19_PollerReturnsAfterTimeout == (poller.pc # "idle") ~> (poller.pc = "returned")

\* C20: a poller issues no RPC request once the abort signal passed to it is aborted, and
\* then returns not-found.
C20_NoRpcAfterAbort ==
  /\ poller.external => ~poller.rpcAfterAbort
  /\ (poller.pc = "returned" /\ poller.extAborted) => poller.result = "notfound"

\* run r executes the write of handlePollingTimeout in this step
TimeoutWrites(r) == run[r].pc = "hpt_write" /\ run'[r].pc = "hpt_log"

\* C21: handlePollingTimeout never writes undetermined onto a flow that is completed or
\* failed at the time of the write.
C21_TimeoutCheckAndWriteAtomic ==
  [][\A r \in Runs : TimeoutWrites(r) => status \notin {"completed", "failed"}]_vars

\* the `<stage>_timeout` row handlePollingTimeout appends for the stage of run r
TimeoutRow(r) ==
  [stage |-> run[r].stage \o "_timeout", chain |-> StageChain(run[r].stage),
   source |-> POLLER_SOURCE, status |-> "failed"]

\* C22: handlePollingTimeout on a pending flow writes undetermined with errorState timeout,
\* then appends exactly the row <stage>_timeout / failed on the stage's chain and publishes
\* one event, and never touches chainProgress; on a flow that is already completed, failed
\* or undetermined it returns without writing.
C22_TimeoutHandlerEffect ==
  [][\A r \in Runs :
       /\ (run[r].pc = "hpt_read" /\ run'[r].pc # "hpt_read")
            => /\ UNCHANGED StoreVars
               /\ run'[r].pc = IF status = "pending" THEN "hpt_write" ELSE "done"
       /\ TimeoutWrites(r)
            => /\ status' = "undetermined" /\ errorState' = "timeout"
               /\ UNCHANGED <<chainProgress, statusLogs, events>>
       /\ (run[r].pc = "hpt_log" /\ run'[r].pc # "hpt_log")
            => /\ statusLogs' = Append(statusLogs, TimeoutRow(r))
               /\ events' = events + 1
               /\ UNCHANGED <<status, errorState, chainProgress>>]_vars

\* handlePollingTimeout has run to its end on the Noble deposit stage
C22_TimeoutHandled ==
  /\ run[1].pc = "done" /\ status = "undetermined" /\ errorState = "timeout"
  /\ \E k \in 1..Len(statusLogs) :
       statusLogs[k] = [stage |-> "noble_deposit_timeout", chain |-> "noble",
                        source |-> POLLER_SOURCE, status |-> "failed"]
  /\ events = 1

\* the poll of run r returns in this step
PollReturns(r) ==
  /\ run[r].pc = "poll"
  /\ run'[r].pc # "dead"
  /\ run'[r].pc # "poll" \/ run'[r].stage # run[r].stage

\* C23: when a stage's poll returns, handlePollingTimeout is entered if and only if the time
\* since the stage's trackStageTimeout has reached the budget, aborted or not.
C23_TimeoutHandlerIffBudgetElapsed ==
  [][\A r \in Runs :
       PollReturns(r) => ((run'[r].pc = "hpt_read") <=> (now - run[r].pollStart >= StageBudget))]_vars

\* run r executes the write of updateChainProgress in this step
ProgressWrites(r) == run[r].pc = "ucp_write" /\ run'[r].pc \notin {"ucp_write", "dead"}

\* C24: the write that confirms a matched stage's chain entry also appends a confirmed
\* stage entry with source poller to that entry's stages list.
C24_MatchAppendsStageEntry ==
  [][\A r \in Runs : ProgressWrites(r) =>
       LET c == StageChain(run[r].stage)
           new == chainProgress'[c].stages
       IN  /\ chainProgress'[c].status = "confirmed"
           /\ Len(new) = Len(chainProgress[c].stages) + 1
           /\ new[Len(new)].status = "confirmed"
           /\ new[Len(new)].source = POLLER_SOURCE]_vars

\* run r publishes the event that follows a confirmed row in this step
PublishesAfterLog(r) ==
  /\ run[r].pc = "log" /\ run'[r].pc \notin {"log", "dead"}
  /\ events' = events + 1

\* C25: when the engine publishes an event after a match, the store already shows it: the
\* stage's chain entry is confirmed and its row is written, and when the event is the
\* completed event the flow's status is completed.
C25_EventsFollowPersistence ==
  [][\A r \in Runs : PublishesAfterLog(r) =>
       /\ chainProgress'[StageChain(run[r].stage)].status = "confirmed"
       /\ \E k \in 1..Len(statusLogs') :
            /\ statusLogs'[k].stage = ConfirmedSymbol(run[r].stage, run[r].step)
            /\ statusLogs'[k].status = "confirmed"
       /\ (EventAfterLog(run[r].stage) = "completed") => (status' = "completed")]_vars

\* run r takes a step of a Noble deposit stage whose poll latched at most one of the two
\* conditions: the stage ends in 'Noble deposit tracking incomplete'
IncompleteStragglerStep(r) ==
  /\ run[r].stage = "noble_deposit"
  /\ run[r].pc \in {"ucp_write", "log", "catch_read", "catch_write"}
  /\ ~(run[r].res[1] /\ run[r].res[2])
  /\ run'[r].pc \notin {run[r].pc, "dead"}

\* C26: a run that ends stage-incomplete on a flow that is already completed leaves the
\* status completed and the errorState as it is, and writes no StatusLog row.
C26_StragglerLeavesCompletedFlow ==
  [][\A r \in Runs : (status = "completed" /\ IncompleteStragglerStep(r)) =>
       /\ status' = "completed"
       /\ errorState' = errorState
       /\ statusLogs' = statusLogs]_vars

DepositScanned == \E k \in 1..Len(scan.requests) : scan.requests[k].carried.deposit
ForwardScanned == \E k \in 1..Len(scan.requests) : scan.requests[k].carried.forward

RequestFailed ==
  /\ Len(scan'.requests) = Len(scan.requests) + 1
  /\ scan'.requests[Len(scan'.requests)].outcome = "error"

\* C28: in a Tendermint poller run the heights passed to getBlockResults start at startHeight
\* and are strictly increasing (so none is requested twice), none is above the last tip read,
\* and a getBlockResults failure does not end the scan: it goes on with the next height.
C28_HeightsIncreaseUpToTip ==
  /\ [](/\ (scan.requests # <<>>) => (scan.requests[1].height = scan.startHeight)
        /\ \A j, k \in 1..Len(scan.requests) :
             (j < k) => (scan.requests[j].height < scan.requests[k].height)
        /\ \A k \in 1..Len(scan.requests) : scan.requests[k].height <= scan.requests[k].tip)
  /\ [][RequestFailed => /\ scan'.nextHeight = scan.nextHeight + 1
                         /\ ~scan'.error
                         /\ scan'.pc = IF scan'.nextHeight <= scan.latest THEN "block"
                                       ELSE "sleep"]_vars

\* three heights requested in a row, the second request failed and the third was made
C28_ScanContinuedAfterFailure ==
  /\ Len(scan.requests) = 3
  /\ scan.requests[2].outcome = "error"
  /\ scan.requests[3].outcome = "ok"
  /\ scan.requests[3].height = scan.startHeight + 2

\* C29: a height whose block results were not yet available (getBlockResults returned null)
\* is not treated as scanned: the poller has not moved past it unless it requested it again.
C29_UnavailableHeightRequestedAgain ==
  \A k \in 1..Len(scan.requests) :
    (scan.requests[k].outcome = "null") =>
      \/ scan.nextHeight <= scan.requests[k].height
      \/ \E j \in (k + 1)..Len(scan.requests) : scan.requests[j].height = scan.requests[k].height

\* C30: a failed RPC call inside a poller never ends the poll: a poll that has returned was
\* ended by a match, the deadline or cancellation, never by the error of a request.
C30_RpcFailureNeverEndsPoll == (scan.pc = "returned") => ~scan.error

MessageHashes(evs) ==
  {evs[i].inner : i \in {j \in 1..Len(evs) : evs[j].type = "message"}}

\* C31: when the Namada pollForDeposit matches a write_acknowledgement in a block that has a
\* message event, the namadaTxHash it returns is the inner-tx-hash of a message event of
\* that block and the height it returns is that block's height.
C31_HashFromMessageEvent ==
  (/\ calc.op = "namadaScanBlock"
   /\ calc.out.ackFound
   /\ MessageHashes(calc.block) # {}) =>
     /\ calc.out.foundAt = calc.height
     /\ calc.out.namadaTxHash \in MessageHashes(calc.block)

\* C32: pollForOrbiter sets cctpFound for a circle.cctp.v1.DepositForBurn event exactly when
\* its quote-stripped amount, destination_caller and mint_recipient equal the expected values
\* and its destination_domain equals the expected destinationDomain, domain 0 included.
C32_DepositForBurnMatch ==
  (calc.op = "depositForBurn" /\ calc.params.destinationDomain # Undef
     /\ calc.ev.type = "circle.cctp.v1.DepositForBurn") =>
    (calc.out <=> /\ calc.ev.amount.text = calc.params.amount.text
                  /\ calc.ev.destination_caller.text = calc.params.destinationCallerB64.text
                  /\ calc.ev.mint_recipient.text = calc.params.mintRecipientB64.text
                  /\ calc.ev.destination_domain = calc.params.destinationDomain)

\* the first value in order that satisfies Ok, AbsentV when there is none
FirstThat(Ok(_), vs) ==
  IF \E i \in 1..Len(vs) : Ok(vs[i])
  THEN vs[CHOOSE i \in 1..Len(vs) : Ok(vs[i]) /\ \A j \in 1..(i - 1) : ~Ok(vs[j])]
  ELSE AbsentV

WithSuffix(v) == IF v.kind = "absent" THEN AbsentV ELSE StrUusdc(v.str.digits)
NonBlankString(v) == v.kind = "string" /\ NonBlank(v)

Falsy(v) == ~(v.kind = "number" \/ NonEmpty(v))

\* C34: for every stored flow the params carried by its resume job equal the params trackFlow
\* derived for its original job: each key is given in both with the same value, or in neither.
C34_ResumeParamsEqualOriginal ==
  (calc.op = "params") =>
    \A k \in DOMAIN calc.out :
      \/ calc.resume[k] = calc.out[k]
      \/ Falsy(calc.resume[k]) /\ Falsy(calc.out[k])

TendermintStages == {"noble_deposit", "namada_receive", "noble_payment"}

\* C35: the start height handed to a Tendermint poll is a non-negative integer equal to the
\* flow's persisted startBlock for that chain, also for a flow created with a null startBlock.
C35_StartHeightIsPersistedStartBlock ==
  \A r \in Runs :
    (run[r].pc = "poll" /\ run[r].stage \in TendermintStages) =>
       /\ run[r].startHeight >= 0
       /\ run[r].startHeight = chainProgress[StageChain(run[r].stage)].startBlock

ClientWrites == client.pc = "write" /\ client'.pc = "log"
ClientLogs == client.pc = "log" /\ client'.pc = "idle"

\* C36: appendClientStage appends exactly one stage entry to the named chain's gaslessStages
\* when kind is gasless and to its stages otherwise, leaves the other list of that chain and
\* every other chain's entry unchanged, leaves errorState unchanged, and writes exactly one
\* StatusLog row.
C36_AppendClientStageFrame ==
  [][/\ ClientWrites =>
          LET u == client.update
              old == chainProgress[u.chain]
              new == chainProgress'[u.chain]
          IN  /\ \A c \in Chains \ {u.chain} : chainProgress'[c] = chainProgress[c]
              /\ IF u.kind = "gasless"
                   THEN /\ Len(new.gaslessStages) = Len(old.gaslessStages) + 1
                        /\ SubSeq(new.gaslessStages, 1, Len(old.gaslessStages)) = old.gaslessStages
                        /\ new.stages = old.stages
                   ELSE /\ Len(new.stages) = Len(old.stages) + 1
                        /\ SubSeq(new.stages, 1, Len(old.stages)) = old.stages
                        /\ new.gaslessStages = old.gaslessStages
              /\ errorState' = errorState
              /\ statusLogs' = statusLogs
     /\ ClientLogs => /\ Len(statusLogs') = Len(statusLogs) + 1
                      /\ SubSeq(statusLogs', 1, Len(statusLogs)) = statusLogs
                      /\ UNCHANGED <<chainProgress, errorState>>]_vars

\* C37: progress writes are never lost or reverted: once a chain entry is confirmed in the
\* store it stays confirmed with the same txHash, whatever appendClientStage,
\* updateChainProgress or ensureStartBlock writes later.
C37_ConfirmedProgressKept ==
  [][\A c \in Chains :
       (chainProgress[c].present /\ chainProgress[c].status = "confirmed") =>
          /\ chainProgress'[c].present
          /\ chainProgress'[c].status = "confirmed"
          /\ chainProgress'[c].txHash = chainProgress[c].txHash]_vars

\* C38: the active-flow map has an entry for the flow exactly while an engine run of the flow
\* is in progress: no entry without a run, and while a run that was not cancelled is in
\* progress the entry is there, so that stopFlow aborts it.
C38_ActiveEntryWhileRunning ==
  /\ (activeFlows # 0) => (\E r \in Runs : InProgress(r))
  /\ (\E r \in Runs : InProgress(r) /\ ~run[r].aborted) => (activeFlows # 0)

\* C39: whenever a stage's poller returns a result with all of its conditions found, the
\* engine goes on to record the stage as confirmed and does not enter the timeout handler
\* for that stage, whatever the elapsed time at the return.
C39_FoundResultNeverTimesOut ==
  [][\A r \in Runs :
       (/\ PollReturns(r)
        /\ ~run[r].aborted
        /\ FullMatch(run[r].stage, run'[r].res[1], run'[r].res[2]))
         => (run'[r].pc = "ucp_read")]_vars

\* C40: every chain id for which the engine requests an RPC client or a polling
\* configuration, in deposit and in payment flows, is an id present in the chain registry.
C40_RequestedChainIsRegistered == (calc.op = "rpcFactory") => calc.known

====
